---- MODULE Spec2Model ----
(***************************************************************************)
(* servez-lib: a static-file HTTP server.  The module models the request   *)
(* pipeline that lib/servez.js builds in the Servez constructor (auth      *)
(* gate, CORS, synthetic robots.txt, access log, pre-compressed sidecar    *)
(* negotiation from lib/compression.js, express.static, serve-index with   *)
(* the renderer of lib/listing.js, 404 and 500 handlers) over a small file *)
(* tree, and a client that issues requests and follows redirects.          *)
(*                                                                         *)
(* Representation.  A file name is the sequence of its dot-separated       *)
(* parts: "file.txt.gz" is <<"file","txt","gz">> and ".hidden" is          *)
(* <<"","hidden">>, so appending ".gz", endsWith(".gz"), stripping the     *)
(* last three characters of a name ending in .gz/.br, extname and the      *)
(* leading-dot test are operations on that sequence.  A path is a sequence *)
(* of names below root; a URL is a path plus its trailing-slash flag.      *)
(* A credential string is a sequence of one-character strings.             *)
(***************************************************************************)
EXTENDS Integers, Sequences, FiniteSets, TLC

VARIABLES
  settings,   \* the Settings object given to the constructor (read-only)
  files,      \* paths of the plain files under root
  dirs,       \* paths of the directories under root (root itself is <<>>)
  robotsMw,   \* TRUE iff the constructor installed the robots middleware
  req,        \* the request the client has in flight, or NoReq
  res,        \* the response to req, or NoRes
  origin,     \* the request the client started with (req after redirects)
  cfg,        \* startup: each server's settings, and the ports other processes hold;
              \* serving: the other Servez instance of the process, if any
  socks,      \* startup: the sockets the servers have bound (probes and listeners)
  srv         \* startup: each server's position, probe history, events, connections

appVars == <<settings, files, dirs, robotsMw, req, res, origin>>
startVars == <<cfg, socks, srv>>
vars == <<settings, files, dirs, robotsMw, req, res, origin, cfg, socks, srv>>

\* a JavaScript value that is undefined, and one that is a string
Undefined == [t |-> "undefined"]
Str(s) == [t |-> "string", v |-> s]

NoReq == [method |-> "none"]
NoRes == [status |-> 0]

(***************************************************************************)
(* Bounds of the model.                                                    *)
(***************************************************************************)
\* at most this many of the optional settings are given a truthy value
MaxFlags == 2

(***************************************************************************)
(* Names, paths and the file tree.                                         *)
(***************************************************************************)
IndexName == <<"index", "html">>

GzExt == "gz"
BrExt == "br"

\* name + '.' + ext  (name + method.extension, path + '.' + extension)
AddExt(name, ext) == Append(name, ext)

\* a path whose last name gets ext appended
PathAddExt(p, ext) == [p EXCEPT ![Len(p)] = AddExt(p[Len(p)], ext)]

\* String.prototype.endsWith('.' + ext) on a file name
EndsWithExt(name, ext) == Len(name) >= 2 /\ name[Len(name)] = ext

\* path.substr(0, path.length - 3) on a name ending in ".gz" or ".br"
StripExt(name) == SubSeq(name, 1, Len(name) - 1)

\* the name starts with '.'
IsDotName(name) == Len(name) >= 2 /\ name[1] = ""

\* path.extname(p) !== '' : a dot that is not the leading one
HasExtname(name) == Len(name) >= 3 \/ (Len(name) = 2 /\ name[1] # "")

\* fs.statSync / fs.stat on root joined with path p
Stat(p) ==
  IF p \in files THEN "file"
  ELSE IF p = <<>> \/ p \in dirs THEN "dir"
  ELSE "none"

Parent(p) == SubSeq(p, 1, Len(p) - 1)

\* stat fails with ENOTDIR rather than ENOENT: a proper prefix is a plain file
NotDir(p) == \E k \in 1..(Len(p) - 1) : SubSeq(p, 1, k) \in files

\* fs.readdir of directory d: the names of its direct children
Children(d) ==
  {p[Len(p)] : p \in {q \in files \cup dirs : Len(q) = Len(d) + 1 /\ Parent(q) = d}}

(***************************************************************************)
(* The file trees the server is started on: a base tree (a text file and a *)
(* folder holding index.html, a dotfile and a sub-folder) and the trees    *)
(* that differ from it by one change.                                      *)
(***************************************************************************)
FileTxt == <<"file", "txt">>
FileTxtGz == <<"file", "txt", "gz">>
FileTxtBr == <<"file", "txt", "br">>
HiddenName == <<"", "hidden">>
RobotsTxt == <<"robots", "txt">>
RobotsTxtGz == <<"robots", "txt", "gz">>
Folder == <<"folder">>
FolderGz == <<"folder", "gz">>
SubName == <<"sub">>
DotName == <<"", "dot">>
FalseGz == <<"false", "gz">>
IndexGz == <<"index", "html", "gz">>
FooName == <<"foo">>
FooHtml == <<"foo", "html">>
FooTxt == <<"foo", "txt">>
AmpName == <<"&", "<", ">">>
MissingTxt == <<"missing", "txt">>
HiddenGz == <<"", "hidden", "gz">>
SecretTxt == <<"secret", "txt">>
SecretTxtGz == <<"secret", "txt", "gz">>

\* the name ".."; a path starting with it names a file beside root, outside it
UpName == <<"", "", "">>

\* the path climbs out of root
HasUp(p) == p # <<>> /\ p[1] = UpName

BaseFiles == { <<FileTxt>>, <<Folder, IndexName>>, <<Folder, DotName>> }
BaseDirs == { <<Folder>>, <<Folder, SubName>> }

Change(addF, addD, delF) == [addF |-> addF, addD |-> addD, delF |-> delF]

Changes ==
  { Change({}, {}, {}),
    Change({<<FileTxtGz>>}, {}, {}),
    Change({<<FileTxtBr>>}, {}, {}),
    Change({<<FileTxtGz>>, <<FileTxtBr>>}, {}, {}),
    Change({<<FileTxtGz>>}, {}, {<<FileTxt>>}),
    Change({}, {<<FileTxtGz>>}, {}),
    Change({<<RobotsTxt>>}, {}, {}),
    Change({<<RobotsTxtGz>>}, {}, {}),
    Change({<<HiddenName>>}, {}, {}),
    Change({<<HiddenName>>, <<HiddenGz>>}, {}, {}),
    Change({<<UpName, SecretTxtGz>>}, {}, {}),
    Change({<<FooHtml>>}, {}, {}),
    Change({<<FooTxt>>}, {}, {}),
    Change({<<FooHtml>>, <<FooTxt>>}, {}, {}),
    Change({<<Folder, IndexGz>>}, {}, {}),
    Change({<<Folder, FalseGz>>}, {}, {}),
    Change({<<FolderGz>>}, {}, {}),
    Change({}, {}, {<<Folder, IndexName>>}) }

\* stat.size of the files of the tree
FileSize(p) ==
  IF p[Len(p)] = DotName THEN 0
  ELSE IF p[Len(p)] = IndexName THEN 2048
  ELSE 10

(***************************************************************************)
(* Settings (lib/servez.js, typedef Settings).  Absent options are falsy.  *)
(***************************************************************************)
FlagNames ==
  { "index", "dirs", "gzip", "brotli", "unityHack", "sharedArrayBuffers",
    "headers", "robots", "hidden", "username", "password", "extensions", "cors" }

UserName == <<"u">>
PassWord == <<"p">>
ExtraHeaders == { <<"X-Extra", "1">> }

SettingsOf(T) ==
  [ index |-> "index" \in T,
    dirs |-> "dirs" \in T,
    gzip |-> "gzip" \in T,
    brotli |-> "brotli" \in T,
    unityHack |-> "unityHack" \in T,
    sharedArrayBuffers |-> "sharedArrayBuffers" \in T,
    headers |-> IF "headers" \in T THEN ExtraHeaders ELSE {},
    robots |-> "robots" \in T,
    hidden |-> "hidden" \in T,
    username |-> IF "username" \in T THEN Str(UserName) ELSE Undefined,
    password |-> IF "password" \in T THEN Str(PassWord) ELSE Undefined,
    extensions |-> IF "extensions" \in T THEN <<"html", "txt">> ELSE <<>>,
    cors |-> "cors" \in T ]

SettingsSet == { SettingsOf(T) : T \in {X \in SUBSET FlagNames : Cardinality(X) <= MaxFlags} }

(***************************************************************************)
(* Requests.                                                               *)
(***************************************************************************)
Url(segs, slash) == [segs |-> segs, slash |-> slash]

Urls ==
  { Url(<<>>, TRUE), Url(<<FileTxt>>, FALSE), Url(<<FileTxtGz>>, FALSE), Url(<<FileTxtBr>>, FALSE),
    Url(<<MissingTxt>>, FALSE), Url(<<AmpName>>, FALSE),
    Url(<<HiddenName>>, FALSE), Url(<<RobotsTxt>>, FALSE), Url(<<FooName>>, FALSE),
    Url(<<Folder>>, FALSE), Url(<<Folder>>, TRUE), Url(<<Folder, IndexName>>, FALSE),
    Url(<<FileTxt, SubName>>, FALSE), Url(<<UpName, SecretTxt>>, FALSE) }

\* the query string of the request URL ("" for none); only /robots.txt is
\* asked for with one
NoQuery == ""
Queries(u) == IF u = Url(<<RobotsTxt>>, FALSE) THEN {NoQuery, "x=1"} ELSE {NoQuery}

Methods == { "GET", "HEAD", "POST", "OPTIONS" }

\* an Accept-Encoding header: its codings, each with q=0 (refused) or not
Coding(name, refused) == [coding |-> name, refused |-> refused]

AcceptEncodings ==
  { {}, {Coding("gzip", FALSE)}, {Coding("br", FALSE)},
    {Coding("gzip", FALSE), Coding("br", FALSE)}, {Coding("gzip", TRUE)} }

\* an Authorization header: none, or Basic with this decoded user-pass string
NoAuth == [t |-> "none"]
Basic(userpass) == [t |-> "basic", v |-> userpass]

Authorizations ==
  { NoAuth, Basic(<<"u", ":", "p">>), Basic(<<"u", ":", "x">>), Basic(<<"x", ":", "p">>),
    Basic(<<"u", ":", "p", "p">>), Basic(<<"u", "p">>), Basic(<<"u", ":">>) }

(***************************************************************************)
(* Responses.  A response under construction is a context: the headers set *)
(* so far, the stages that have run, the log lines written, and the        *)
(* secureCompare calls made.                                               *)
(***************************************************************************)
HeaderNames ==
  { "Content-Type", "charset", "Content-Encoding", "Vary", "Cache-Control", "Pragma",
    "Expires", "Cross-Origin-Opener-Policy", "Cross-Origin-Embedder-Policy",
    "WWW-Authenticate", "Access-Control-Allow-Origin", "Access-Control-Allow-Methods",
    "Allow", "X-Extra", "Content-Security-Policy", "X-Content-Type-Options" }

\* "charset" is the charset parameter of the Content-Type header; "" is unset
NoHeaders == [n \in HeaderNames |-> ""]

\* res.set(obj) / res.setHeader(name, value) for each pair
SetAll(h, pairs) ==
  [n \in HeaderNames |->
     IF \E pr \in pairs : pr[1] = n THEN (CHOOSE pr \in pairs : pr[1] = n)[2] ELSE h[n]]

NewCtx == [hdrs |-> NoHeaders, ran |-> <<>>, log |-> <<>>, compared |-> <<>>]
Ran(c, stage) == [c EXCEPT !.ran = Append(@, stage)]
Logged(c, entry) == [c EXCEPT !.log = Append(@, entry)]
Compared(c, what) == [c EXCEPT !.compared = Append(@, what)]
WithHeaders(c, pairs) == [c EXCEPT !.hdrs = SetAll(@, pairs)]

NoBody == [kind |-> "none"]
FileBytes(p) == [kind |-> "file", path |-> p]
Text(t) == [kind |-> "text", text |-> t]

\* the response as the client receives it; a HEAD response carries no body
Respond(r, c, status, body) ==
  [ status |-> status,
    hdrs |-> c.hdrs,
    location |-> Url(<<>>, TRUE),
    entity |-> body,
    body |-> IF r.method = "HEAD" THEN NoBody ELSE body,
    ran |-> c.ran,
    log |-> c.log,
    compared |-> c.compared ]

(***************************************************************************)
(* mime lookups.                                                           *)
(***************************************************************************)
OctetStream == "application/octet-stream"

MimeTypes(ext) ==
  CASE ext = "txt" -> "text/plain"
    [] ext = "html" -> "text/html"
    [] ext = "gz" -> "application/gzip"
    [] OTHER -> ""

\* send.mime.lookup(path): the text after the last '.' or '/', default type
mimeLookup(name) ==
  IF MimeTypes(name[Len(name)]) = "" THEN OctetStream ELSE MimeTypes(name[Len(name)])

\* send.mime.charsets.lookup(type)
charsetsLookup(type) == IF type \in {"text/plain", "text/html"} THEN "UTF-8" ELSE ""

\* require('mime-types').lookup(path) || 'application/octet-stream'
mimeTypesLookup(name) ==
  IF HasExtname(name) /\ MimeTypes(name[Len(name)]) # ""
  THEN MimeTypes(name[Len(name)])
  ELSE OctetStream

\* Express res.set of a Content-Type without charset adds the lower-cased one
ExpressCharset(type) == IF charsetsLookup(type) = "" THEN "" ELSE "utf-8"

(***************************************************************************)
(* lib/servez.js: the terminal handlers.                                   *)
(***************************************************************************)
\* A text is a sequence of tokens; '&', '<' and '>' are tokens of their own.
\* String.prototype.replaceAll(ch, by)
RECURSIVE replaceAll(_, _, _)
replaceAll(s, ch, by) ==
  IF s = <<>> THEN <<>>
  ELSE (IF Head(s) = ch THEN by ELSE <<Head(s)>>) \o replaceAll(Tail(s), ch, by)

\* an Error object, as the stages pass to next(err)
ErrorObject(code) == [t |-> "Error", code |-> code]

\* TypeError: s.replaceAll is not a function
Raised == [kind |-> "raised"]

\* the three replacements made in the order '<', '>', '&'
escapeStringForHTML_ampLast(s) ==
  IF s.t # "string" THEN Raised
  ELSE [kind |-> "text",
        v |-> replaceAll(replaceAll(replaceAll(s.v, "<", <<"&", "lt;">>),
                                    ">", <<"&", "gt;">>),
                         "&", <<"&", "amp;">>)]

\* escapeStringForHTML(s): replaceAll is a method of strings only
escapeStringForHTML(s) ==
  IF s.t # "string" THEN Raised
  ELSE [kind |-> "text",
        v |-> replaceAll(replaceAll(replaceAll(s.v, "&", <<"&", "amp;">>),
                                    "<", <<"&", "lt;">>),
                         ">", <<"&", "gt;">>)]

\* makeErrorHTML(msg): the page around the escaped message
makeErrorHTML(msg) ==
  IF escapeStringForHTML(msg).kind = "raised" THEN Raised
  ELSE [kind |-> "errorhtml", msg |-> escapeStringForHTML(msg).v]

\* a file name as text: its parts joined by '.'
RECURSIVE nameText(_)
nameText(name) ==
  IF Len(name) = 1 THEN <<name[1]>> ELSE <<name[1], ".">> \o nameText(Tail(name))

RECURSIVE pathText(_)
pathText(segs) ==
  IF segs = <<>> THEN <<>> ELSE <<"/">> \o nameText(Head(segs)) \o pathText(Tail(segs))

\* req.path: the pathname of the request URL, as sent
reqPath(u) == pathText(u.segs) \o (IF u.slash THEN <<"/">> ELSE <<>>)

nonErrorLocalErrorHandler(r, c) ==
  Respond(r,
          WithHeaders(Logged(Ran(c, "notfound"),
                             [sink |-> "error", type |-> "Info", method |-> r.method, url |-> r.url, query |-> r.query]),
                      {<<"Content-Type", "text/html">>, <<"charset", "utf-8">>}),
          404, makeErrorHTML(Str(<<"ERROR 404: No such path ">> \o reqPath(r.url))))

\* Express's default error handling, reached when an error handler throws:
\* the status already set on the response, content headers removed
finalhandler(r, c) ==
  Respond(r,
          WithHeaders(Ran(c, "finalhandler"),
                      { <<"Content-Encoding", "">>,
                        <<"Content-Security-Policy", "default-src 'none'">>,
                        <<"X-Content-Type-Options", "nosniff">>,
                        <<"Content-Type", "text/html">>, <<"charset", "utf-8">> }),
          500, [kind |-> "finalhandler"])

\* res.status(500).send(makeErrorHTML(err)): the status is set, then the
\* argument is evaluated
localErrorHandler(err, r, c) ==
  LET c1 == Logged(Ran(c, "error"),
                   [sink |-> "error", type |-> "Error", method |-> r.method, url |-> r.url, query |-> r.query])
  IN  IF makeErrorHTML(err).kind = "raised" THEN finalhandler(r, c1)
      ELSE Respond(r, WithHeaders(c1, {<<"Content-Type", "text/html">>, <<"charset", "utf-8">>}),
                   500, makeErrorHTML(err))

(***************************************************************************)
(* lib/servez.js setHeaders: the 'headers' listener given to send.         *)
(* name is the last name of the path of the file being sent.               *)
(***************************************************************************)
setHeaders(h, name) ==
  LET h1 == SetAll(h, { <<"Cache-Control", "no-cache, no-store, must-revalidate">>,
                        <<"Pragma", "no-cache">>,
                        <<"Expires", "0">> })
      h2 == IF settings.sharedArrayBuffers
            THEN SetAll(h1, { <<"Cross-Origin-Opener-Policy", "same-origin">>,
                              <<"Cross-Origin-Embedder-Policy", "require-corp">> })
            ELSE h1
      h3 == SetAll(h2, settings.headers)
  IN  IF settings.unityHack /\ (EndsWithExt(name, GzExt) \/ EndsWithExt(name, BrExt))
      THEN SetAll(h3, { <<"Content-Type", mimeTypesLookup(StripExt(name))>>,
                        <<"charset", ExpressCharset(mimeTypesLookup(StripExt(name)))>>,
                        <<"Content-Encoding",
                          IF EndsWithExt(name, GzExt) THEN "gzip" ELSE "brotli">> })
      ELSE h3

(***************************************************************************)
(* send(req, path, options).pipe(res): which file the send stream ends up  *)
(* sending, or the event it emits instead.  index is the index option (a   *)
(* name, or NoIndex for none), exts the extensions option.                 *)
(***************************************************************************)
NoIndex == <<>>

SendFile(p) == [t |-> "file", path |-> p]
SendError(status) == [t |-> "error", status |-> status]
SendDirectory == [t |-> "directory"]

\* the extensions tried from the last one down
RECURSIVE tryExtensions_fromLast(_, _, _)
tryExtensions_fromLast(p, exts, i) ==
  IF Len(exts) < i THEN SendError(404)
  ELSE IF Stat(PathAddExt(p, exts[Len(exts) + 1 - i])) = "file"
  THEN SendFile(PathAddExt(p, exts[Len(exts) + 1 - i]))
  ELSE tryExtensions_fromLast(p, exts, i + 1)

\* sendFile's next(): the first extension whose path is a plain file
RECURSIVE tryExtensions(_, _, _)
tryExtensions(p, exts, i) ==
  IF Len(exts) < i THEN SendError(404)
  ELSE IF Stat(PathAddExt(p, exts[i])) = "file" THEN SendFile(PathAddExt(p, exts[i]))
  ELSE tryExtensions(p, exts, i + 1)

sendFile(u, exts) ==
  IF u.slash
  THEN IF Stat(u.segs) = "dir" THEN SendDirectory ELSE SendError(404)
  ELSE CASE Stat(u.segs) = "file" -> SendFile(u.segs)
         [] Stat(u.segs) = "dir" -> SendDirectory
         [] OTHER -> IF u.segs # <<>> /\ ~NotDir(u.segs) /\ ~HasExtname(u.segs[Len(u.segs)])
                     THEN tryExtensions(u.segs, exts, 1)
                     ELSE SendError(404)

sendIndex(u, index) ==
  IF Stat(Append(u.segs, index)) = "file"
  THEN SendFile(Append(u.segs, index))
  ELSE SendError(404)

\* a path that climbs out of root is refused (403); dotfiles option not
\* given: a path whose last part starts with '.' is ignored
sendPipe(u, index, exts) ==
  IF HasUp(u.segs) THEN SendError(403)
  ELSE IF ~u.slash /\ u.segs # <<>> /\ IsDotName(u.segs[Len(u.segs)]) THEN SendError(404)
  ELSE IF index # NoIndex /\ u.slash THEN sendIndex(u, index)
  ELSE sendFile(u, exts)

\* send's own headers for the file at path p, after the 'headers' listeners
sendType(h, p) ==
  IF h["Content-Type"] # "" THEN h
  ELSE SetAll(h, { <<"Content-Type", mimeLookup(p[Len(p)])>>,
                   <<"charset", charsetsLookup(mimeLookup(p[Len(p)]))>> })

\* the send stream without the 'headers' listener
sendHeaders_noListener(h, p) == sendType(h, p)

\* stream.on('headers', setHeaders), then send's own headers
sendHeaders(h, p) == sendType(setHeaders(h, p[Len(p)]), p)

(***************************************************************************)
(* serve-index with the renderer of lib/listing.js.                        *)
(***************************************************************************)
\* formatBytes(bytes, 1): the number in tenths, and the unit
formatBytes(bytes) ==
  LET ndx == IF bytes < 1024 THEN 0
             ELSE IF bytes < 1024 * 1024 THEN 1
             ELSE IF bytes < 1024 * 1024 * 1024 THEN 2
             ELSE 3
      pow == CASE ndx = 0 -> 1 [] ndx = 1 -> 1024 [] ndx = 2 -> 1024 * 1024
               [] OTHER -> 1024 * 1024 * 1024
  IN  [tenths |-> (bytes * 20 + pow) \div (2 * pow), unit |-> <<"B", "K", "M", "G">>[ndx + 1]]

DashSize == [tenths |-> -1, unit |-> "-"]

\* fs.stat of an entry: whether it is a directory, and its size
StatOf(p) == [isDirectory |-> Stat(p) = "dir", size |-> IF Stat(p) = "dir" THEN 0 ELSE FileSize(p)]

\* serve-index without its hidden option: every name of the directory
fileList_noFilter(d) ==
  {[name |-> n, stat |-> StatOf(Append(d, n))] : n \in Children(d)}
    \cup (IF d # <<>> THEN {[name |-> UpName, stat |-> StatOf(Parent(d))]} ELSE {})

\* (serve-index refuses a directory outside root with 403 before its stat)
\* serve-index: readdir, removeHidden unless the hidden option is set, '..'
\* put in front when the directory is not the root, and the stat of each name
fileList(d) ==
  LET shown == IF settings.hidden THEN Children(d) ELSE {n \in Children(d) : ~IsDotName(n)}
  IN  {[name |-> n, stat |-> StatOf(Append(d, n))] : n \in shown}
        \cup (IF d # <<>> THEN {[name |-> UpName, stat |-> StatOf(Parent(d))]} ELSE {})

\* createHtmlFileList(files, dir): one table row per entry of files
createHtmlFileList(fl) ==
  { [ name |-> file.name,
      endSlash |-> file.stat.isDirectory,
      dateStr |-> "YYYY-MM-DD hh:mm",
      sizeStr |-> IF file.stat.isDirectory THEN DashSize ELSE formatBytes(file.stat.size) ]
    : file \in fl }

\* render(locals, callback): the template with {files} replaced
Listing(d) == [kind |-> "listing", directory |-> d, rows |-> createHtmlFileList(fileList(d))]

\* serve-index passing every stat error on as an error, ENOENT included
serveIndex_enoentIsError(r, c) ==
  IF ~settings.dirs THEN nonErrorLocalErrorHandler(r, c)
  ELSE IF r.method \notin {"GET", "HEAD"}
  THEN Respond(r, WithHeaders(Ran(c, "listing"), {<<"Allow", "GET, HEAD, OPTIONS">>}),
               IF r.method = "OPTIONS" THEN 200 ELSE 405, NoBody)
  ELSE IF HasUp(r.url.segs)
  THEN localErrorHandler(ErrorObject("ForbiddenError"), r, Ran(c, "listing"))
  ELSE IF Stat(r.url.segs) = "none" \/ (r.url.slash /\ Stat(r.url.segs) = "file")
  THEN localErrorHandler(ErrorObject("ENOENT"), r, Ran(c, "listing"))
  ELSE IF Stat(r.url.segs) # "dir" THEN nonErrorLocalErrorHandler(r, Ran(c, "listing"))
  ELSE Respond(r, WithHeaders(Ran(c, "listing"),
                              {<<"Content-Type", "text/html">>, <<"charset", "utf-8">>}),
               200, Listing(r.url.segs))

serveIndex(r, c) ==
  IF ~settings.dirs THEN nonErrorLocalErrorHandler(r, c)
  ELSE IF r.method \notin {"GET", "HEAD"}
  THEN Respond(r, WithHeaders(Ran(c, "listing"), {<<"Allow", "GET, HEAD, OPTIONS">>}),
               IF r.method = "OPTIONS" THEN 200 ELSE 405, NoBody)
  ELSE IF HasUp(r.url.segs)
  THEN localErrorHandler(ErrorObject("ForbiddenError"), r, Ran(c, "listing"))
  ELSE IF NotDir(r.url.segs) \/ (r.url.slash /\ Stat(r.url.segs) = "file")
  THEN localErrorHandler(ErrorObject("ENOTDIR"), r, Ran(c, "listing"))
  ELSE IF Stat(r.url.segs) # "dir" THEN nonErrorLocalErrorHandler(r, Ran(c, "listing"))
  ELSE Respond(r, WithHeaders(Ran(c, "listing"),
                              {<<"Content-Type", "text/html">>, <<"charset", "utf-8">>}),
               200, Listing(r.url.segs))

(***************************************************************************)
(* express.static(root, staticOptions).                                    *)
(***************************************************************************)
\* staticOptions.index left at false
StaticIndex_never == NoIndex

StaticIndex == IF settings.index THEN IndexName ELSE NoIndex

Redirect(r, c) ==
  [ Respond(r, WithHeaders(c, {<<"Content-Type", "text/html">>, <<"charset", "UTF-8">>}),
            301, [kind |-> "redirecting"])
    EXCEPT !.location = Url(r.url.segs, TRUE) ]

serveStatic(r, c) ==
  IF r.method \notin {"GET", "HEAD"} THEN serveIndex(r, Ran(c, "static"))
  ELSE LET out == sendPipe(r.url, StaticIndex, settings.extensions)
           c1 == Ran(c, "static")
       IN  CASE out.t = "file" ->
                  Respond(r, [c1 EXCEPT !.hdrs = sendHeaders(@, out.path)], 200,
                          FileBytes(out.path))
             [] out.t = "directory" ->
                  IF r.url.slash THEN serveIndex(r, c1) ELSE Redirect(r, c1)
             [] OTHER -> serveIndex(r, c1)

(***************************************************************************)
(* lib/compression.js: handleGzipBroti(root, options).                     *)
(***************************************************************************)
Method(extension, encoding) == [extension |-> extension, encoding |-> encoding]

\* the methods list pushed in the other order
methods_gzipFirst ==
  (IF settings.gzip THEN <<Method(GzExt, "gzip")>> ELSE <<>>)
    \o (IF settings.brotli THEN <<Method(BrExt, "br")>> ELSE <<>>)

\* the methods list: brotli first, then gzip
methods ==
  (IF settings.brotli THEN <<Method(BrExt, "br")>> ELSE <<>>)
    \o (IF settings.gzip THEN <<Method(GzExt, "gzip")>> ELSE <<>>)

\* ~acceptEncoding.indexOf(encoding): the encoding's name occurs in the header
acceptsEncoding(ae, encoding) == \E cd \in ae : cd.coding = encoding

\* String(options.index): staticOptions.index is 'index.html' or false
OptionsIndex == IF settings.index THEN IndexName ELSE <<"false">>

NoName == [found |-> FALSE]

\* checkExtension(req, method): the name record, or NoName for undefined
checkExtension(r, method) ==
  IF ~acceptsEncoding(r.ae, method.encoding) THEN NoName
  ELSE LET orig == IF r.url.slash THEN Append(r.url.segs, OptionsIndex) ELSE r.url.segs
           full == IF orig = <<>> THEN <<>> ELSE PathAddExt(orig, method.extension)
       IN  IF orig # <<>> /\ Stat(full) = "file"
           THEN [ found |-> TRUE,
                  orig |-> orig,
                  compressed |-> IF r.url.slash THEN r.url ELSE Url(full, FALSE),
                  index |-> IF r.url.slash THEN AddExt(OptionsIndex, method.extension)
                            ELSE NoIndex,
                  full |-> full,
                  encoding |-> method.encoding ]
           ELSE NoName

\* the candidate loop: the first method whose checkExtension returns a name
RECURSIVE firstName(_, _)
firstName(r, i) ==
  IF Len(methods) < i THEN NoName
  ELSE IF checkExtension(r, methods[i]).found THEN checkExtension(r, methods[i])
  ELSE firstName(r, i + 1)

\* setHeader(res, path, encoding)
setHeader(h, name, encoding) ==
  SetAll(h, { <<"Content-Type", mimeLookup(name)>>,
              <<"charset", charsetsLookup(mimeLookup(name))>>,
              <<"Content-Encoding", encoding>>,
              <<"Vary", "Accept-Encoding">> })

\* the middleware setting Vary: Accept-Encoding before it passes a miss on
handleGzipBroti_varyOnMiss(r, c) ==
  IF ~(settings.gzip \/ settings.brotli) THEN serveStatic(r, c)
  ELSE IF r.method \notin {"GET", "HEAD"} THEN serveStatic(r, Ran(c, "compression"))
  ELSE LET name == firstName(r, 1)
           c1 == Ran(c, "compression")
       IN  IF ~name.found
           THEN serveStatic(r, WithHeaders(c1, {<<"Vary", "Accept-Encoding">>}))
           ELSE LET c2 == [c1 EXCEPT !.hdrs = setHeader(@, name.orig[Len(name.orig)],
                                                        name.encoding)]
                    out == sendPipe(name.compressed, name.index, <<>>)
                IN  CASE out.t = "file" ->
                           Respond(r, [c2 EXCEPT !.hdrs = sendHeaders(@, out.path)], 200,
                                   FileBytes(out.path))
                      [] out.t = "directory" ->
                           IF name.compressed.slash
                           THEN localErrorHandler(ErrorObject("ForbiddenError"), r, c2)
                           ELSE Redirect(r, c2)
                      [] OTHER -> localErrorHandler(ErrorObject("NotFoundError"), r, c2)

handleGzipBroti(r, c) ==
  IF ~(settings.gzip \/ settings.brotli) THEN serveStatic(r, c)
  ELSE IF r.method \notin {"GET", "HEAD"} THEN serveStatic(r, Ran(c, "compression"))
  ELSE LET name == firstName(r, 1)
           c1 == Ran(c, "compression")
       IN  IF ~name.found THEN serveStatic(r, c1)
           ELSE LET c2 == [c1 EXCEPT !.hdrs = setHeader(@, name.orig[Len(name.orig)],
                                                        name.encoding)]
                    out == sendPipe(name.compressed, name.index, <<>>)
                IN  CASE out.t = "file" ->
                           Respond(r, [c2 EXCEPT !.hdrs = sendHeaders(@, out.path)], 200,
                                   FileBytes(out.path))
                      [] out.t = "directory" ->
                           IF name.compressed.slash
                           THEN localErrorHandler(ErrorObject("ForbiddenError"), r, c2)
                           ELSE Redirect(r, c2)
                      [] OTHER -> localErrorHandler(ErrorObject("NotFoundError"), r, c2)

(***************************************************************************)
(* lib/servez.js: the middleware the constructor installs before it.       *)
(***************************************************************************)
accessLog(r, c) ==
  handleGzipBroti(r, Logged(Ran(c, "log"),
                            [sink |-> "log", type |-> "Info", method |-> r.method, url |-> r.url, query |-> r.query]))

\* the body with its line break written as CR LF
RobotsBody_crlf == "User-agent: *\r\nDisallow: /"

RobotsBody == "User-agent: *\nDisallow: /"

\* the robots middleware installed without the fileExists test
robots_always(r, c) ==
  IF ~settings.robots THEN accessLog(r, c)
  ELSE IF r.url = Url(<<RobotsTxt>>, FALSE) /\ r.query = NoQuery
  THEN Respond(r, WithHeaders(Ran(c, "robots"), {<<"Content-Type", "text/plain">>}), 200,
               Text(RobotsBody))
  ELSE accessLog(r, Ran(c, "robots"))

\* req.url === '/robots.txt': req.url is the path with its query string
robots(r, c) ==
  IF ~robotsMw THEN accessLog(r, c)
  ELSE IF r.url = Url(<<RobotsTxt>>, FALSE) /\ r.query = NoQuery
  THEN Respond(r, WithHeaders(Ran(c, "robots"), {<<"Content-Type", "text/plain">>}), 200,
               Text(RobotsBody))
  ELSE accessLog(r, Ran(c, "robots"))

\* cors() with its defaults: a preflight is answered, anything else passes on
corsMw(r, c) ==
  IF ~settings.cors THEN robots(r, c)
  ELSE IF r.method = "OPTIONS"
  THEN Respond(r, WithHeaders(Ran(c, "cors"),
                              { <<"Access-Control-Allow-Origin", "*">>,
                                <<"Access-Control-Allow-Methods",
                                  "GET,HEAD,PUT,PATCH,POST,DELETE">>,
                                <<"Vary", "Access-Control-Request-Headers">> }),
               204, NoBody)
  ELSE robots(r, WithHeaders(Ran(c, "cors"), {<<"Access-Control-Allow-Origin", "*">>}))

\* basic-auth: the credentials of the Authorization header, or undefined
NoCredentials == [found |-> FALSE]

RECURSIVE colonAt(_, _)
colonAt(s, i) ==
  IF Len(s) < i THEN 0 ELSE IF s[i] = ":" THEN i ELSE colonAt(s, i + 1)

auth(r) ==
  IF r.authorization.t # "basic" \/ colonAt(r.authorization.v, 1) = 0 THEN NoCredentials
  ELSE LET s == r.authorization.v
           k == colonAt(s, 1)
       IN  [found |-> TRUE, name |-> Str(SubSeq(s, 1, k - 1)),
            pass |-> Str(SubSeq(s, k + 1, Len(s)))]

\* secure-compare without the length comparison: compares over the length of a
secureCompare_noLength(a, b) ==
  IF a.t # "string" \/ b.t # "string" THEN FALSE
  ELSE \A i \in 1..Len(a.v) : i <= Len(b.v) /\ a.v[i] = b.v[i]

\* secure-compare: false unless both are strings; compares a with itself when
\* the lengths differ, the mismatch already being recorded
secureCompare(a, b) ==
  IF a.t # "string" \/ b.t # "string" THEN FALSE
  ELSE LET mismatch == Len(a.v) # Len(b.v)
           b2 == IF mismatch THEN a.v ELSE b.v
       IN  ~(mismatch \/ \E i \in 1..Len(a.v) : a.v[i] # b2[i])

Truthy(x) == x.t = "string" /\ x.v # <<>>

\* if (settings.username && settings.password)
authInstalled_both == Truthy(settings.username) /\ Truthy(settings.password)

\* if (settings.username || settings.password)
authInstalled == Truthy(settings.username) \/ Truthy(settings.password)

authPasses(r) ==
  /\ auth(r).found
  /\ secureCompare(settings.username, auth(r).name)
  /\ secureCompare(settings.password, auth(r).pass)

\* if (credentials) { secureCompare(username), secureCompare(password) }:
\* both calls are made when the request carries credentials, none otherwise
authCompares(r, c) ==
  IF auth(r).found THEN Compared(Compared(c, "username"), "password") ELSE c

authMw(r, c) ==
  IF ~authInstalled THEN corsMw(r, c)
  ELSE IF authPasses(r) THEN corsMw(r, authCompares(r, Ran(c, "auth")))
  ELSE Respond(r, WithHeaders(authCompares(r, Ran(c, "auth")),
                              {<<"WWW-Authenticate", "Basic realm=\"\"">>}),
               401, Text("Access denied"))

\* the express app: the response to request r
app(r) == authMw(r, NewCtx)

(***************************************************************************)
(* The server after construction, and its client.                          *)
(***************************************************************************)
Request(method, url, query, ae, authorization) ==
  [method |-> method, url |-> url, query |-> query, ae |-> ae,
   authorization |-> authorization]

\* no server is being started: the pipeline is looked at on its own
NoCfg == [t |-> "none"]

\* fileExists(path.join(root, 'robots.txt'))
fileExists(p) == Stat(p) # "none"

Init ==
  /\ settings \in SettingsSet
  /\ \E ch \in Changes :
       /\ files = (BaseFiles \cup ch.addF) \ ch.delF
       /\ dirs = BaseDirs \cup ch.addD
       /\ robotsMw = (settings.robots /\ ~fileExists(<<RobotsTxt>>))
  /\ req = NoReq
  /\ res = NoRes
  /\ origin = NoReq
  /\ cfg = NoCfg
  /\ socks = {}
  /\ srv = <<>>

\* the client sends a request and the app answers it
Send ==
  /\ req = NoReq
  /\ \E m \in Methods, u \in Urls, ae \in AcceptEncodings,
        a \in (IF authInstalled THEN Authorizations ELSE {NoAuth}) :
       \E q \in Queries(u) :
       /\ req' = Request(m, u, q, ae, a)
       /\ origin' = req'
       /\ res' = app(req')
  /\ UNCHANGED <<settings, files, dirs, robotsMw>>
  /\ UNCHANGED startVars

\* the client follows a redirect: the same request to the Location
Follow ==
  /\ req # NoReq
  /\ res.status = 301
  /\ req' = [req EXCEPT !.url = res.location]
  /\ res' = app(req')
  /\ UNCHANGED <<settings, files, dirs, robotsMw, origin>>
  /\ UNCHANGED startVars

\* the client takes the final response
Deliver ==
  /\ req # NoReq
  /\ res.status # 301
  /\ req' = NoReq
  /\ res' = NoRes
  /\ origin' = NoReq
  /\ UNCHANGED <<settings, files, dirs, robotsMw>>
  /\ UNCHANGED startVars

Next == Send \/ Follow \/ Deliver

Spec == Init /\ [][Next]_vars

(***************************************************************************)
(* The same server on a root whose robots.txt comes and goes between       *)
(* requests, as does a file beside root, and in a process where another    *)
(* instance is constructed.  The constructor's fileExists test was made on *)
(* the tree the server was constructed on.                                 *)
(***************************************************************************)
TreeInit ==
  /\ settings \in SettingsSet
  /\ files \in {BaseFiles, BaseFiles \cup {<<RobotsTxt>>}}
  /\ dirs = BaseDirs
  /\ robotsMw = (settings.robots /\ ~fileExists(<<RobotsTxt>>))
  /\ req = NoReq
  /\ res = NoRes
  /\ origin = NoReq
  /\ cfg = NoCfg
  /\ socks = {}
  /\ srv = <<>>

\* another process writes root/robots.txt
CreateRobotsTxt ==
  /\ req = NoReq
  /\ <<RobotsTxt>> \notin files
  /\ files' = files \cup {<<RobotsTxt>>}
  /\ UNCHANGED <<settings, dirs, robotsMw, req, res, origin>>
  /\ UNCHANGED startVars

\* another process removes root/robots.txt
DeleteRobotsTxt ==
  /\ req = NoReq
  /\ <<RobotsTxt>> \in files
  /\ files' = files \ {<<RobotsTxt>>}
  /\ UNCHANGED <<settings, dirs, robotsMw, req, res, origin>>
  /\ UNCHANGED startVars

\* another process writes a file beside root, at any time
CreateOutside ==
  /\ <<UpName, SecretTxtGz>> \notin files
  /\ files' = files \cup {<<UpName, SecretTxtGz>>}
  /\ UNCHANGED <<settings, dirs, robotsMw, req, res, origin>>
  /\ UNCHANGED startVars

\* another process removes the file beside root, at any time
DeleteOutside ==
  /\ <<UpName, SecretTxtGz>> \in files
  /\ files' = files \ {<<UpName, SecretTxtGz>>}
  /\ UNCHANGED <<settings, dirs, robotsMw, req, res, origin>>
  /\ UNCHANGED startVars

\* the settings another instance is constructed with
OtherSettings == {SettingsOf({}), SettingsOf({"index", "extensions"})}

\* staticOptions as one object of the module, written by every constructor
staticOptions_moduleLevel(own, other) ==
  [own EXCEPT !.index = other.index, !.extensions = other.extensions]

\* const staticOptions inside the constructor: what the stages of this
\* instance read once another instance has been constructed
staticOptions(own, other) == own

\* new Servez(other) in the same process
Construct ==
  /\ cfg = NoCfg
  /\ \E other \in OtherSettings :
       /\ cfg' = [t |-> "other", settings |-> other]
       /\ settings' = staticOptions(settings, other)
  /\ UNCHANGED <<files, dirs, robotsMw, req, res, origin, socks, srv>>

TreeNext ==
  \/ Send \/ Follow \/ Deliver
  \/ CreateRobotsTxt \/ DeleteRobotsTxt
  \/ CreateOutside \/ DeleteOutside
  \/ Construct

TreeSpec == TreeInit /\ [][TreeNext]_vars

(***************************************************************************)
(* Startup (lib/servez.js, the async block of the constructor, and         *)
(* lib/get-free-port.js).  Two servers are constructed on the same         *)
(* requested port; other processes hold some ports.  A bind is one step,   *)
(* and so is the release of a probe, the listen call with what precedes    *)
(* it, the 'listening' handler, close() and the 'close' event.             *)
(***************************************************************************)
Servers == {1, 2}
Clients == {"c1"}

\* the ports of the machine are BasePort..MaxPort; every server asks for BasePort
BasePort == 1
MaxPort == 4

\* the ports other processes may hold
BusyPorts == {BasePort, BasePort + 1}

AnyHost == "0.0.0.0"
LoopHost == "127.0.0.1"

\* what another process does to a port: nothing, a socket bound to every
\* interface or to the loopback address, or a port the OS refuses
PortStates == {"free", "heldAny", "heldLoop", "EACCES", "EINVAL"}

\* settings.ssl with its key and certificate: off, obtainable, or not
SslStates == {"off", "ok", "missing"}

ServerSettings == [port : {BasePort}, scan : BOOLEAN, local : BOOLEAN, ssl : SslStates]

\* const hostname = local ? '127.0.0.1' : undefined (every interface)
hostname(s) == IF cfg.servers[s].local THEN LoopHost ELSE AnyHost

\* os.networkInterfaces()
iFaces ==
  << [family |-> "IPv4", address |-> "127.0.0.1", internal |-> TRUE],
     [family |-> "IPv4", address |-> "10.0.0.2", internal |-> FALSE],
     [family |-> "IPv6", address |-> "fe80::1", internal |-> FALSE] >>

Sock(owner, kind, port, host) == [owner |-> owner, kind |-> kind, port |-> port, host |-> host]

\* two binds of one port collide when they name the same address, and, where
\* the OS says so, when one names every interface and the other one address
Collide(h1, h2) == h1 = h2 \/ cfg.overlap

HeldHost(state) == IF state = "heldAny" THEN AnyHost ELSE LoopHost

\* the outcome of binding (port, host): "ok" or the error code
bindResult(port, host) ==
  LET state == IF port \in BusyPorts THEN cfg.held[port] ELSE "free"
  IN  IF state \in {"EACCES", "EINVAL"} THEN state
      ELSE IF state \in {"heldAny", "heldLoop"} /\ Collide(host, HeldHost(state))
      THEN "EADDRINUSE"
      ELSE IF \E k \in socks : k.port = port /\ Collide(host, k.host) THEN "EADDRINUSE"
      ELSE "ok"

\* one call of getFreePort with the probes it has made
Call(host, start) == [host |-> host, start |-> start, probes |-> <<>>]

Probed(port, host, result) == [port |-> port, host |-> host, result |-> result]

\* resolve(getFreePort(port++, host)): the port is passed on before it is raised
nextPort_postIncrement(port) == port

\* resolve(getFreePort(++port, host))
nextPort(port) == port + 1

\* resolve(getFreePort(++port)): the host is not handed to the next probe,
\* which then binds every interface
retryHost_dropped(host) == AnyHost

\* resolve(getFreePort(++port, host)): the next probe binds the same host
retryHost(host) == host

\* the events a server has emitted
ErrorEvent(what) == [type |-> "error", what |-> what]
HostEvent(root) == [type |-> "host", root |-> root]
StartEvent(port, protocol) ==
  [type |-> "start", port |-> port, protocol |-> protocol,
   baseUrl |-> <<protocol, "localhost:", port>>]
CloseEvent == [type |-> "close"]

protocol(s) == IF cfg.servers[s].ssl = "off" THEN "http://" ELSE "https://"

\* the 'host' events of the 'listening' handler, in the order of iFaces
RECURSIVE hostEvents(_, _, _)
hostEvents(s, port, i) ==
  IF Len(iFaces) < i THEN <<>>
  ELSE (IF iFaces[i].family = "IPv4"
        THEN <<HostEvent(<<protocol(s), iFaces[i].address, ":", port, "/">>)>>
        ELSE <<>>) \o hostEvents(s, port, i + 1)

\* the 'start' event carrying the requested port
startInfo_requested(s, port) == StartEvent(cfg.servers[s].port, protocol(s))

\* the 'start' event: { port, protocol, baseUrl }
startInfo(s, port) == StartEvent(port, protocol(s))

\* server.close() alone: the listener stops, open connections stay
destroy_closeOnly(conns) == conns

\* server.destroy() of server-destroy: close(), and every connection destroyed
destroy(conns) == {}

StartInit ==
  /\ settings = SettingsOf({})
  /\ files = BaseFiles
  /\ dirs = BaseDirs
  /\ robotsMw = FALSE
  /\ req = NoReq
  /\ res = NoRes
  /\ origin = NoReq
  /\ cfg \in [servers : [Servers -> ServerSettings], held : [BusyPorts -> PortStates],
              overlap : BOOLEAN]
  /\ cfg.servers[2].ssl = "off"
  /\ socks = {}
  /\ srv = [s \in Servers |->
              [pc |-> "probe", host |-> AnyHost, port |-> cfg.servers[s].port,
               calls |-> <<Call(AnyHost, cfg.servers[s].port)>>,
               events |-> <<>>, conns |-> {}, answered |-> {}, severed |-> {}]]

\* getFreePort: server.listen({port, host, exclusive: true}) and its outcome
Probe(s) ==
  /\ srv[s].pc = "probe"
  /\ srv[s].port <= MaxPort
  /\ LET result == bindResult(srv[s].port, srv[s].host)
         n == Len(srv[s].calls)
         logged == [srv[s].calls EXCEPT
                      ![n].probes = Append(@, Probed(srv[s].port, srv[s].host, result))]
     IN  CASE result = "ok" ->
                /\ socks' = socks \cup {Sock(s, "probe", srv[s].port, srv[s].host)}
                /\ srv' = [srv EXCEPT ![s].calls = logged, ![s].pc = "release"]
           [] result \in {"EADDRINUSE", "EACCES"} ->
                /\ socks' = socks
                /\ srv' = [srv EXCEPT ![s].calls = logged, ![s].port = nextPort(@),
                                   ![s].host = retryHost(@)]
           [] OTHER ->
                /\ socks' = socks
                /\ srv' = [srv EXCEPT ![s].calls = logged, ![s].pc = "rejected"]
  /\ UNCHANGED <<appVars, cfg>>

\* server.close(); resolve(port): the promise resolves while the probe
\* listener is still closing
closeProbe_pending(ss, k) == ss

\* server.close(() => resolve(port)): the probe listener is closed when the
\* callback resolves the promise
closeProbe(ss, k) == ss \ {k}

\* onListen: server.close(() => resolve(port)); getFreePortForLocalAndPublic
\* hands the port of the first call to the second
Release(s) ==
  /\ srv[s].pc = "release"
  /\ socks' = closeProbe(socks, Sock(s, "probe", srv[s].port, srv[s].host))
  /\ srv' = IF srv[s].host = AnyHost
            THEN [srv EXCEPT ![s].pc = "probe", ![s].host = LoopHost,
                             ![s].calls = Append(@, Call(LoopHost, srv[s].port))]
            ELSE [srv EXCEPT ![s].pc = "resolved"]
  /\ UNCHANGED <<appVars, cfg>>

\* on a bind error the next port is probed
listenError_rescan(server, e) ==
  [server EXCEPT !.pc = "probe", !.port = @ + 1, !.host = AnyHost,
                 !.events = Append(@, ErrorEvent(e)),
                 !.calls = Append(@, Call(AnyHost, server.port + 1))]

\* server.on('error', e => this.emit('error', e)): nothing else happens
listenError(server, e) ==
  [server EXCEPT !.pc = "failed", !.events = Append(@, ErrorEvent(e))]

\* the constructor after port discovery: the scan test, the server with its
\* TLS material, server.listen(port, hostname) and the outcome of its bind
Listen(s) ==
  /\ srv[s].pc = "resolved"
  /\ LET port == srv[s].port
         result == bindResult(port, hostname(s))
     IN  IF ~cfg.servers[s].scan /\ port # cfg.servers[s].port
         THEN /\ srv' = [srv EXCEPT ![s].pc = "failed",
                                    ![s].events = Append(@, ErrorEvent("port in use"))]
              /\ socks' = socks
         ELSE IF cfg.servers[s].ssl = "missing"
         THEN /\ srv' = [srv EXCEPT ![s].pc = "nocert"]
              /\ socks' = socks
         ELSE IF result = "ok"
         THEN /\ srv' = [srv EXCEPT ![s].pc = "bound"]
              /\ socks' = socks \cup {Sock(s, "listener", port, hostname(s))}
         ELSE /\ srv' = [srv EXCEPT ![s] = listenError(@, result)]
              /\ socks' = socks
  /\ UNCHANGED <<appVars, cfg>>

\* server.on('listening'): the 'host' events, then 'start'
Listening(s) ==
  /\ srv[s].pc = "bound"
  /\ srv' = [srv EXCEPT ![s].pc = "started",
                        ![s].events = @ \o (IF cfg.servers[s].local THEN <<>>
                                            ELSE hostEvents(s, srv[s].port, 1))
                                        \o <<startInfo(s, srv[s].port)>>]
  /\ UNCHANGED <<appVars, cfg, socks>>

\* a client connects to the listener
Connect(s, c) ==
  /\ srv[s].pc = "started"
  /\ c \notin srv[s].conns
  /\ c \notin srv[s].answered
  /\ srv' = [srv EXCEPT ![s].conns = @ \cup {c}]
  /\ UNCHANGED <<appVars, cfg, socks>>

\* the app answers a request received on an open connection
Answer(s, c) ==
  /\ c \in srv[s].conns
  /\ c \notin srv[s].answered
  /\ srv' = [srv EXCEPT ![s].answered = @ \cup {c}]
  /\ UNCHANGED <<appVars, cfg, socks>>

\* this.close(): server.destroy(); severed records the connections it cut
Close(s) ==
  /\ srv[s].pc = "started"
  /\ socks' = socks \ {Sock(s, "listener", srv[s].port, hostname(s))}
  /\ srv' = [srv EXCEPT ![s].pc = "closing", ![s].conns = destroy(@),
                        ![s].severed = srv[s].conns \ destroy(srv[s].conns)]
  /\ UNCHANGED <<appVars, cfg>>

\* server.on('close'): emitted once the listener has stopped and no
\* connection is left
EmitClose(s) ==
  /\ srv[s].pc = "closing"
  /\ srv[s].conns = {}
  /\ srv' = [srv EXCEPT ![s].pc = "closed", ![s].events = Append(@, CloseEvent)]
  /\ UNCHANGED <<appVars, cfg, socks>>

StartNext ==
  \E s \in Servers :
    \/ Probe(s)
    \/ Release(s)
    \/ Listen(s)
    \/ Listening(s)
    \/ Close(s)
    \/ EmitClose(s)
    \/ \E c \in Clients : Connect(s, c) \/ Answer(s, c)

StartSpec == StartInit /\ [][StartNext]_vars

\* the event loop runs the 'close' callback of a server whose listener has
\* stopped and whose connections are gone
StartLive == StartSpec /\ \A s \in Servers : WF_vars(EmitClose(s))

\* the event loop runs every pending callback of the startup: the outcome of
\* a probe, the close callback of a probe, the continuation after the
\* discovery, the 'listening' event
StartRun ==
  StartSpec /\ \A s \in Servers : /\ WF_vars(Probe(s))
                                  /\ WF_vars(Release(s))
                                  /\ WF_vars(Listen(s))
                                  /\ WF_vars(Listening(s))

(***************************************************************************)
(* Vocabulary of the properties.                                           *)
(***************************************************************************)
\* the client holds the response to its request
Answered == req # NoReq

\* the client holds the response it ends with (no redirect left to follow)
Final == req # NoReq /\ res.status # 301

\* the credentials a request carries: the user-pass string cut at its first colon
CarriesCredentials(r, name, pass) ==
  /\ r.authorization.t = "basic"
  /\ \E k \in 1..Len(r.authorization.v) :
       /\ r.authorization.v[k] = ":"
       /\ \A j \in 1..(k - 1) : r.authorization.v[j] # ":"
       /\ Str(SubSeq(r.authorization.v, 1, k - 1)) = name
       /\ Str(SubSeq(r.authorization.v, k + 1, Len(r.authorization.v))) = pass

\* the request is let through by the auth gate, or there is no gate
Admitted(r) ==
  authInstalled => CarriesCredentials(r, settings.username, settings.password)

\* the stage that wrote the response
AnsweredBy(stage) == res.ran # <<>> /\ res.ran[Len(res.ran)] = stage

(***************************************************************************)
(* C1.  With a username or password configured, a request passes the auth  *)
(* gate exactly when it carries Basic credentials whose name equals the    *)
(* configured username and whose pass equals the configured password; any  *)
(* other request is answered 401 with WWW-Authenticate: Basic realm="" by  *)
(* the gate, and no later stage runs for it.                               *)
(***************************************************************************)
C1_AuthGate ==
  (Answered /\ authInstalled) =>
    IF CarriesCredentials(req, settings.username, settings.password)
    THEN res.ran[1] = "auth" /\ Len(res.ran) >= 2 /\ res.status # 401
    ELSE /\ res.status = 401
         /\ res.hdrs["WWW-Authenticate"] = "Basic realm=\"\""
         /\ res.ran = <<"auth">>

\* correct username with a wrong password is refused by the gate
C1_Witness ==
  /\ Answered
  /\ settings.username = Str(UserName) /\ settings.password = Str(PassWord)
  /\ req.authorization = Basic(<<"u", ":", "x">>)
  /\ res.status = 401

\* the request's method is GET and the auth gate, if any, lets it through
GetAdmitted(r) == r.method = "GET" /\ Admitted(r)

\* no name of the path starts with a dot
NoDotSegment(p) == \A i \in 1..Len(p) : ~IsDotName(p[i])

FlagOn(enc) == IF enc = "br" THEN settings.brotli ELSE settings.gzip
ExtOf(enc) == IF enc = "br" THEN BrExt ELSE GzExt

\* the Accept-Encoding header contains the encoding's name
Names(ae, enc) == \E cd \in ae : cd.coding = enc

\* the Accept-Encoding header lists the encoding as acceptable (not with q=0)
Advertises(ae, enc) == \E cd \in ae : cd.coding = enc /\ ~cd.refused

\* path p has a sidecar of an enabled encoding that the request's header names
SidecarNamed(r, p) ==
  /\ p # <<>>
  /\ \E enc \in {"br", "gzip"} :
       FlagOn(enc) /\ Names(r.ae, enc) /\ Stat(PathAddExt(p, ExtOf(enc))) = "file"

\* the compression stage answered with a file
Hit == Answered /\ AnsweredBy("compression") /\ res.status = 200

ExtensionHit(r) ==
  /\ ~r.url.slash /\ ~NotDir(r.url.segs) /\ ~HasExtname(r.url.segs[Len(r.url.segs)])
  /\ ~IsDotName(r.url.segs[Len(r.url.segs)])
  /\ \E i \in 1..Len(settings.extensions) :
       Stat(PathAddExt(r.url.segs, settings.extensions[i])) = "file"

C4_HitHeaders ==
  Hit =>
    /\ res.entity.kind = "file"
    /\ \E enc \in {"br", "gzip"} :
         LET sidecar == res.entity.path[Len(res.entity.path)]
         IN  /\ EndsWithExt(sidecar, ExtOf(enc))
             /\ res.hdrs["Content-Type"] = mimeLookup(StripExt(sidecar))
             /\ res.hdrs["Content-Encoding"] = enc
             /\ res.hdrs["Vary"] = "Accept-Encoding"
             /\ (req.method = "GET" => res.body = res.entity)

\* a gzip hit with unityHack off carries all of it
C4_Witness ==
  /\ Hit /\ req.method = "GET" /\ req.url = Url(<<FileTxt>>, FALSE)
  /\ ~settings.unityHack
  /\ res.hdrs["Content-Type"] = "text/plain" /\ res.hdrs["Content-Encoding"] = "gzip"
  /\ res.hdrs["Vary"] = "Accept-Encoding" /\ res.body = FileBytes(<<FileTxtGz>>)

(***************************************************************************)
(* C5.  The compression stage answers with a sidecar only if the method is *)
(* GET or HEAD, the sidecar's flag is enabled, the Accept-Encoding header  *)
(* advertises its encoding, and the sidecar exists and is no directory.    *)
(***************************************************************************)
C5_HitOnlyIf ==
  Hit =>
    /\ req.method \in {"GET", "HEAD"}
    /\ res.entity.kind = "file"
    /\ Stat(res.entity.path) = "file"
    /\ \E enc \in {"br", "gzip"} :
         /\ EndsWithExt(res.entity.path[Len(res.entity.path)], ExtOf(enc))
         /\ FlagOn(enc)
         /\ Advertises(req.ae, enc)

\* a directory named like the sidecar is passed over
C5_Witness ==
  /\ Answered /\ req.method = "GET" /\ req.url = Url(<<FileTxt>>, FALSE)
  /\ settings.gzip /\ Stat(<<FileTxtGz>>) = "dir" /\ Advertises(req.ae, "gzip")
  /\ AnsweredBy("static") /\ res.body = FileBytes(<<FileTxt>>)

(***************************************************************************)
(* C6.  With gzip and brotli both enabled, both encodings accepted and     *)
(* both sidecars present for the requested path, the .br sidecar is the    *)
(* one served; the .gz sidecar is served only when the brotli candidate    *)
(* does not win.  (Of requests that reach the compression stage, for a     *)
(* path without trailing slash and without dot-prefixed names.)            *)
(***************************************************************************)
ReachesCompression == \E i \in 1..Len(res.ran) : res.ran[i] = "compression"

C6_BrotliFirst ==
  (Answered /\ ReachesCompression /\ req.method \in {"GET", "HEAD"}
     /\ ~req.url.slash /\ NoDotSegment(req.url.segs)) =>
    LET br == PathAddExt(req.url.segs, BrExt)
        gz == PathAddExt(req.url.segs, GzExt)
        brWins == settings.brotli /\ Names(req.ae, "br") /\ Stat(br) = "file"
    IN  /\ (settings.gzip /\ Names(req.ae, "gzip") /\ Stat(gz) = "file" /\ brWins) =>
             (Hit /\ res.entity = FileBytes(br))
        /\ (Hit /\ res.entity = FileBytes(gz)) => ~brWins

\* both sidecars of file.txt are there, both encodings accepted: .br is sent
C6_Witness ==
  /\ Hit /\ req.url = Url(<<FileTxt>>, FALSE) /\ req.method = "GET"
  /\ settings.gzip /\ settings.brotli
  /\ Names(req.ae, "gzip") /\ Names(req.ae, "br")
  /\ Stat(<<FileTxtGz>>) = "file" /\ Stat(<<FileTxtBr>>) = "file"
  /\ res.body = FileBytes(<<FileTxtBr>>)

(***************************************************************************)
(* Directories.  A GET of /folder is answered 301 to /folder/ by the       *)
(* static stage; what the request returns is what the client ends with,    *)
(* the request it first sent being origin.                                 *)
(***************************************************************************)
\* the directory d holds a plain file index.html
HoldsIndex(d) == Stat(d) = "dir" /\ Stat(Append(d, IndexName)) = "file"

\* the first request asked for d's index.html by its full path
AsksIndexOf(d) == origin.url = Url(Append(d, IndexName), FALSE)

\* the client ends with the response to a GET the auth gate admits
FinalGet == Final /\ GetAdmitted(origin)

(***************************************************************************)
(* C7.  With index mode off and listing mode off, for every directory that *)
(* contains index.html, GET /folder and GET /folder/ both end in 404 while *)
(* GET /folder/index.html returns 200.                                     *)
(***************************************************************************)
\* as stated, for requests the auth gate admits, a GET of /folder that a
\* sidecar named like the directory (folder.gz) answers left aside
C7_IndexOff ==
  (FinalGet /\ ~settings.index /\ ~settings.dirs) =>
    /\ (HoldsIndex(origin.url.segs)
          /\ (origin.url.slash \/ ~SidecarNamed(origin, origin.url.segs))) =>
         res.status = 404
    /\ \A d \in dirs : (HoldsIndex(d) /\ AsksIndexOf(d)) => res.status = 200

\* index and listing off, compression off: /folder ends in 404
C7_Witness ==
  /\ FinalGet /\ ~settings.index /\ ~settings.dirs /\ ~settings.gzip /\ ~settings.brotli
  /\ origin.url = Url(<<Folder>>, FALSE) /\ HoldsIndex(<<Folder>>)
  /\ req.url = Url(<<Folder>>, TRUE)
  /\ res.status = 404

(***************************************************************************)
(* C8.  With index mode on, for every directory that contains index.html,  *)
(* GET /folder, GET /folder/ and GET /folder/index.html all return 200     *)
(* with the same body, also when listing mode is on.                       *)
(***************************************************************************)
\* the response to the same request made for d's index.html
IndexResponse(d) == app([origin EXCEPT !.url = Url(Append(d, IndexName), FALSE)])

\* as stated, for requests the auth gate admits
C8_IndexOnAll ==
  (FinalGet /\ settings.index) =>
    /\ HoldsIndex(origin.url.segs) =>
         (res.status = 200 /\ res.body = IndexResponse(origin.url.segs).body)
    /\ \A d \in dirs : (HoldsIndex(d) /\ AsksIndexOf(d)) => res.status = 200

\* amended: GET /folder is redirected to /folder/, unless a sidecar named
\* like the directory (folder.gz, folder.br) of an enabled encoding that the
\* request's Accept-Encoding names is sent in its place
C8_IndexOn ==
  (FinalGet /\ settings.index /\ NoDotSegment(origin.url.segs)) =>
    /\ (HoldsIndex(origin.url.segs)
          /\ (origin.url.slash \/ ~SidecarNamed(origin, origin.url.segs))) =>
         /\ res.status = 200
         /\ res.body = IndexResponse(origin.url.segs).body
         /\ req.url = Url(origin.url.segs, TRUE)
    /\ \A d \in dirs : (HoldsIndex(d) /\ AsksIndexOf(d)) => res.status = 200

\* index and listing both on: /folder ends, after the redirect, in index.html
C8_Witness ==
  /\ FinalGet /\ settings.index /\ settings.dirs
  /\ origin.url = Url(<<Folder>>, FALSE) /\ req.url = Url(<<Folder>>, TRUE)
  /\ res.status = 200 /\ res.body = FileBytes(<<Folder, IndexName>>)
  /\ AnsweredBy("static")

(***************************************************************************)
(* C9.  With listing mode on and index mode off, GET of a directory        *)
(* returns 200 with a listing that differs from the directory's index.html *)
(* and has exactly one entry per direct child (dotfiles only when the      *)
(* hidden flag is set), each file entry with a size and a timestamp, each  *)
(* directory entry with size "-".                                          *)
(***************************************************************************)
\* the names the listing of d is to show
ShownChildren(d) == {n \in Children(d) : settings.hidden \/ ~IsDotName(n)}

\* body is a listing of d whose entries are those of names, well-formed
ListingOf(body, d, names) ==
  /\ body.kind = "listing"
  /\ body # FileBytes(Append(d, IndexName))
  /\ {row.name : row \in body.rows} = names
  /\ Cardinality(body.rows) = Cardinality(names)
  /\ \A row \in body.rows :
       /\ row.dateStr # ""
       /\ IF row.name = UpName \/ Stat(Append(d, row.name)) = "dir"
          THEN row.endSlash /\ row.sizeStr = DashSize
          ELSE ~row.endSlash /\ row.sizeStr.unit \in {"B", "K", "M", "G"}
                 /\ row.sizeStr.tenths >= 0

\* as stated, for requests the auth gate admits
C9_ListingExact ==
  (FinalGet /\ settings.dirs /\ ~settings.index /\ Stat(origin.url.segs) = "dir") =>
    /\ res.status = 200
    /\ ListingOf(res.body, origin.url.segs, ShownChildren(origin.url.segs))

\* amended: below the root the listing has one more entry, "..", a
\* directory entry; and the compression stage has not answered in its place
C9_Listing ==
  (FinalGet /\ settings.dirs /\ ~settings.index /\ Stat(origin.url.segs) = "dir"
     /\ ~AnsweredBy("compression")) =>
    /\ res.status = 200
    /\ AnsweredBy("listing")
    /\ ListingOf(res.body, origin.url.segs,
                 ShownChildren(origin.url.segs)
                   \cup (IF origin.url.segs = <<>> THEN {} ELSE {UpName}))

\* the listing of /folder/ with hidden off: index.html, sub/ and "..", no .dot
C9_Witness ==
  /\ FinalGet /\ settings.dirs /\ ~settings.index /\ ~settings.hidden
  /\ origin.url = Url(<<Folder>>, TRUE)
  /\ DotName \in Children(<<Folder>>)
  /\ res.status = 200 /\ res.body.kind = "listing"
  /\ {row.name : row \in res.body.rows} = {IndexName, SubName, UpName}

(***************************************************************************)
(* C10.  With synthetic robots enabled and no physical robots.txt, GET     *)
(* /robots.txt returns 200, text/plain, with body exactly                  *)
(* "User-agent: *\nDisallow: /"; with synthetic robots disabled and no     *)
(* physical robots.txt it returns 404.                                     *)
(***************************************************************************)
AsksRobots ==
  req.url = Url(<<RobotsTxt>>, FALSE) /\ req.query = NoQuery /\ Stat(<<RobotsTxt>>) = "none"

ReachesStatic == \E i \in 1..Len(res.ran) : res.ran[i] = "static"

C17_Extensions ==
  (Answered /\ req.method \in {"GET", "HEAD"} /\ ReachesStatic
     /\ settings.extensions # <<>> /\ ~req.url.slash) =>
    LET p == req.url.segs
        served(q) == AnsweredBy("static") /\ res.status = 200 /\ res.entity = FileBytes(q)
    IN  /\ (Stat(p) = "file" /\ NoDotSegment(p)) => served(p)
        /\ (AnsweredBy("static") /\ res.status = 200 /\ Stat(p) # "file") =>
             \E i \in 1..Len(settings.extensions) :
               /\ served(PathAddExt(p, settings.extensions[i]))
               /\ Stat(PathAddExt(p, settings.extensions[i])) = "file"
               /\ \A j \in 1..(i - 1) : Stat(PathAddExt(p, settings.extensions[j])) # "file"
        /\ (Stat(p) = "none" /\ ExtensionHit(req)) => (AnsweredBy("static") /\ res.status = 200)

\* foo.html and foo.txt both exist: GET /foo is served foo.html, the first
C17_Witness ==
  /\ Answered /\ req.method = "GET" /\ req.url = Url(<<FooName>>, FALSE)
  /\ settings.extensions = <<"html", "txt">>
  /\ Stat(<<FooHtml>>) = "file" /\ Stat(<<FooTxt>>) = "file"
  /\ res.status = 200 /\ res.body = FileBytes(<<FooHtml>>)

(***************************************************************************)
(* C18.  The body of every 404 response names the missing request path     *)
(* with each '&', '<' and '>' of the path replaced by '&amp;', '&lt;' and   *)
(* '&gt;', so no raw '<' or '>' of the path appears in the body.           *)
(***************************************************************************)
EscapedToken(t) ==
  CASE t = "&" -> <<"&", "amp;">>
    [] t = "<" -> <<"&", "lt;">>
    [] t = ">" -> <<"&", "gt;">>
    [] OTHER -> <<t>>

RECURSIVE Escaped(_)
Escaped(s) == IF s = <<>> THEN <<>> ELSE EscapedToken(Head(s)) \o Escaped(Tail(s))

C18_NotFoundEscaped ==
  (Answered /\ res.status = 404) =>
    /\ res.entity.kind = "errorhtml"
    /\ res.entity.msg = <<"ERROR 404: No such path ">> \o Escaped(reqPath(req.url))
    /\ \A i \in 1..Len(res.entity.msg) : res.entity.msg[i] \notin {"<", ">"}

\* the 404 for the path /&.<.> carries &amp;.&lt;.&gt;
C18_Witness ==
  /\ Answered /\ req.url = Url(<<AmpName>>, FALSE) /\ res.status = 404
  /\ res.entity.kind = "errorhtml"
  /\ res.entity.msg = <<"ERROR 404: No such path ", "/", "&", "amp;", ".", "&", "lt;", ".",
                        "&", "gt;">>

(***************************************************************************)
(* C19.  Any error a stage passes to next(err) is caught by the terminal   *)
(* error stage, which completes without raising and responds 500 with the  *)
(* HTML-escaped text of the error produced by makeErrorHTML.               *)
(***************************************************************************)
ReachesErrorStage == \E i \in 1..Len(res.ran) : res.ran[i] = "error"

C19_ErrorStage ==
  (Answered /\ ReachesErrorStage) =>
    /\ res.status = 500
    /\ AnsweredBy("error")
    /\ res.entity.kind = "errorhtml"

(***************************************************************************)
(* Vocabulary of the startup claims.                                       *)
(***************************************************************************)
EventsOf(s, type) == {i \in 1..Len(srv[s].events) : srv[s].events[i].type = type}

Emitted(s, type) == EventsOf(s, type) # {}

HasListener(s) == \E k \in socks : k.owner = s /\ k.kind = "listener"

\* the call made a probe of the port that bound
ProbedFree(c, port) ==
  \E i \in 1..Len(c.probes) : c.probes[i].port = port /\ c.probes[i].result = "ok"

\* the call has bound a port
Resolves(c) == Len(c.probes) > 0 /\ c.probes[Len(c.probes)].result = "ok"

\* what the n-th call of server s hands on: the start of the next call, or
\* the port of the server
HandedOn(s, n) ==
  IF n < Len(srv[s].calls) THEN srv[s].calls[n + 1].start ELSE srv[s].port

Discovered(s) == srv[s].pc \in {"resolved", "failed", "nocert", "bound", "started", "closing", "closed"}

(***************************************************************************)
(* C13.  getFreePort(startPort, host) probes startPort, startPort + 1, ... *)
(* once each and in this order; every probe before the last failed with    *)
(* EADDRINUSE or EACCES; the call resolves with the port of the first      *)
(* probe that bound, and probes nothing after it.                          *)
(***************************************************************************)
C13_GetFreePort ==
  \A s \in Servers : \A n \in 1..Len(srv[s].calls) :
    LET c == srv[s].calls[n]
    IN  /\ \A i \in 1..Len(c.probes) :
             /\ c.probes[i].port = c.start + (i - 1)
             /\ i < Len(c.probes) => c.probes[i].result \in {"EADDRINUSE", "EACCES"}
        /\ Resolves(c) => HandedOn(s, n) = c.probes[Len(c.probes)].port

\* a call that skipped a port in use and one the OS refused, and resolved
C13_Witness ==
  \E s \in Servers :
    /\ srv[s].pc = "resolved"
    /\ LET c == srv[s].calls[1]
       IN  /\ Len(c.probes) = 3
           /\ c.probes[1].result = "EADDRINUSE"
           /\ c.probes[2].result = "EACCES"
           /\ c.probes[3].result = "ok"
           /\ srv[s].calls[2].start = c.start + 2

(***************************************************************************)
(* C14.  The port that getFreePort(getFreePort(port, '0.0.0.0'),           *)
(* '127.0.0.1') returns was bound by a probe on 0.0.0.0 and by a probe on  *)
(* 127.0.0.1, and so was every port a server publishes in 'start'.         *)
(***************************************************************************)
C14_BothHosts ==
  \A s \in Servers :
    /\ Discovered(s) =>
         /\ ProbedFree(srv[s].calls[1], srv[s].port)
         /\ ProbedFree(srv[s].calls[2], srv[s].port)
    /\ \A i \in EventsOf(s, "start") :
         /\ ProbedFree(srv[s].calls[1], srv[s].events[i].port)
         /\ ProbedFree(srv[s].calls[2], srv[s].events[i].port)

(***************************************************************************)
(* C11.  Two servers asking for the same port with scanning enabled both   *)
(* emit 'start', on different ports, whatever the order of their probes,   *)
(* releases and listens.  Read with no port held by another process and    *)
(* no TLS, so that only the two servers compete.                           *)
(***************************************************************************)
QuietMachine ==
  /\ \A p \in BusyPorts : cfg.held[p] = "free"
  /\ \A s \in Servers : cfg.servers[s].ssl = "off"

C11_BothStart ==
  (QuietMachine /\ \A s \in Servers : cfg.servers[s].scan) =>
    /\ \A s \in Servers : srv[s].pc # "failed" /\ ~Emitted(s, "error")
    /\ \A s, t \in Servers :
         (s # t /\ Emitted(s, "start") /\ Emitted(t, "start")) => srv[s].port # srv[t].port

(***************************************************************************)
(* C12.  With scanning disabled, a server whose discovered port differs    *)
(* from the requested one emits 'error', binds no listener and emits no    *)
(* 'start'; a server that found the requested port free on both hosts      *)
(* binds the requested port.  Read with TLS material at hand.              *)
(***************************************************************************)
C12_NoScan ==
  \A s \in Servers :
    (~cfg.servers[s].scan /\ cfg.servers[s].ssl # "missing" /\ Discovered(s)
       /\ srv[s].pc # "resolved") =>
      IF srv[s].port # cfg.servers[s].port
      THEN Emitted(s, "error") /\ ~HasListener(s) /\ ~Emitted(s, "start")
      ELSE srv[s].pc # "failed"

(***************************************************************************)
(* C16.  A server emits 'start' at most once, after its listener is bound; *)
(* the payload's port is the port discovery resolved and the listener is   *)
(* bound to, its protocol is 'https://' with ssl and 'http://' without,    *)
(* and its baseUrl is protocol, 'localhost:', port.                        *)
(***************************************************************************)
C16_StartOnce ==
  \A s \in Servers :
    /\ Cardinality(EventsOf(s, "start")) <= 1
    /\ \A i \in EventsOf(s, "start") :
         LET e == srv[s].events[i]
         IN  /\ srv[s].pc \in {"started", "closing", "closed"}
             /\ srv[s].pc = "started" => Sock(s, "listener", e.port, hostname(s)) \in socks
             /\ e.port = srv[s].port
             /\ Resolves(srv[s].calls[2])
             /\ e.port = srv[s].calls[2].probes[Len(srv[s].calls[2].probes)].port
             /\ e.protocol = (IF cfg.servers[s].ssl = "off" THEN "http://" ELSE "https://")
             /\ e.baseUrl = <<e.protocol, "localhost:", e.port>>

\* an https server that scanned past the requested port and started
C16_Witness ==
  \E s \in Servers :
    /\ srv[s].pc = "started"
    /\ cfg.servers[s].ssl = "ok"
    /\ srv[s].port > cfg.servers[s].port
    /\ Emitted(s, "start")
    /\ HasListener(s)

(***************************************************************************)
(* C20.  A server whose configuration fails (the port is taken and         *)
(* scanning is off, a probe or the listen fails with another OS error,     *)
(* the TLS material cannot be obtained) emits 'error' and never 'start'.   *)
(***************************************************************************)
C20_ConfigErrors ==
  \A s \in Servers :
    srv[s].pc \in {"failed", "rejected", "nocert"} =>
      Emitted(s, "error") /\ ~Emitted(s, "start")

(***************************************************************************)
(* C15.  close() on a started server stops its listener and destroys its   *)
(* open connections; 'close' is emitted eventually; no request is          *)
(* answered once close() has been called.                                  *)
(***************************************************************************)
Closed(s) == srv[s].pc \in {"closing", "closed"}

C15_Close ==
  /\ [](\A s \in Servers : Closed(s) => ~HasListener(s) /\ srv[s].conns = {})
  /\ \A s \in Servers : (srv[s].pc = "closing") ~> Emitted(s, "close")
  /\ [][\A s \in Servers : Closed(s) => srv'[s].answered = srv[s].answered]_vars

\* close() arrived while a connection was open and its request unanswered,
\* and 'close' has been emitted
C15_Witness ==
  \E s \in Servers : \E c \in Clients :
    /\ srv[s].pc = "closed"
    /\ Emitted(s, "close")
    /\ c \in srv[s].severed
    /\ c \notin srv[s].answered
    /\ ~HasListener(s)

(***************************************************************************)
(* C21.  Every request that reaches the auth gate has both constant-time   *)
(* comparisons made for it, the username's and the password's, whether it  *)
(* carries credentials or not and whether its username is right or not.    *)
(***************************************************************************)
C21_BothCompared ==
  (Answered /\ authInstalled) => res.compared = <<"username", "password">>

(***************************************************************************)
(* C22.  On a compression miss (the method is neither GET nor HEAD, or no  *)
(* candidate wins) the compression stage sets no header and hands the      *)
(* request to the static stage; the response is the one the server gives   *)
(* with gzip and brotli off.                                               *)
(***************************************************************************)
StageAt(stage) == CHOOSE i \in 1..Len(res.ran) : res.ran[i] = stage

ReachesCompressionStage == \E i \in 1..Len(res.ran) : res.ran[i] = "compression"

Miss ==
  /\ Answered /\ ReachesCompressionStage
  /\ req.method \notin {"GET", "HEAD"} \/ ~firstName(req, 1).found

\* the context the access log hands on: the CORS header if any, the stages
\* so far, the access log entry
AfterLog ==
  [ hdrs |-> IF settings.cors
             THEN SetAll(NoHeaders, {<<"Access-Control-Allow-Origin", "*">>})
             ELSE NoHeaders,
    ran |-> SubSeq(res.ran, 1, StageAt("log")),
    log |-> <<res.log[1]>>,
    compared |-> res.compared ]

NotCompression(stage) == stage # "compression"

C22_Miss ==
  Miss =>
    /\ res.ran[StageAt("compression") + 1] = "static"
    /\ StageAt("compression") = StageAt("log") + 1
    /\ [res EXCEPT !.ran = SelectSeq(@, NotCompression)] = serveStatic(req, AfterLog)

\* gzip on, file.txt.gz on disk, a request that names no encoding: the static
\* stage serves file.txt
C22_Witness ==
  /\ Miss /\ req.method = "GET" /\ req.url = Url(<<FileTxt>>, FALSE)
  /\ settings.gzip /\ Stat(<<FileTxtGz>>) = "file" /\ req.ae = {}
  /\ res.ran = <<"log", "compression", "static">>
  /\ res.status = 200 /\ res.body = FileBytes(<<FileTxt>>)
  /\ res.hdrs["Vary"] = "" /\ res.hdrs["Content-Encoding"] = ""

(***************************************************************************)
(* C23.  The synthesized robots.txt is sent only when root holds no        *)
(* robots.txt at the time of the request, also when the file was created   *)
(* or deleted after the server was constructed.                            *)
(***************************************************************************)
Synthesized == Answered /\ AnsweredBy("robots") /\ res.entity = Text(RobotsBody)

C23_SynthOnlyIfAbsent == Synthesized => Stat(<<RobotsTxt>>) = "none"

(***************************************************************************)
(* C24.  While robots synthesis is active, a request gets the synthesized  *)
(* body exactly when its path is /robots.txt, whatever its query string;   *)
(* any other request goes on to the next stage.                            *)
(***************************************************************************)
ReachesRobots == \E i \in 1..Len(res.ran) : res.ran[i] = "robots"

C24_ExactPath ==
  (Answered /\ robotsMw /\ ReachesRobots) =>
    IF req.url = Url(<<RobotsTxt>>, FALSE)
    THEN Synthesized
    ELSE ~Synthesized /\ res.ran[StageAt("robots") + 1] = "log"

(***************************************************************************)
(* C25.  A probe of getFreePort that fails with a code other than          *)
(* EADDRINUSE and EACCES rejects the promise with that error and ends the  *)
(* probing; one that fails with EADDRINUSE or EACCES is followed by a      *)
(* probe of port + 1 on the host the call was made with.                   *)
(***************************************************************************)
Retried(result) == result \in {"EADDRINUSE", "EACCES"}

C25_OnError ==
  \A s \in Servers : \A n \in 1..Len(srv[s].calls) :
    LET c == srv[s].calls[n]
    IN  /\ \A i \in 1..Len(c.probes) :
             /\ c.probes[i].host = c.host
             /\ (Retried(c.probes[i].result) /\ i < Len(c.probes)) =>
                  c.probes[i + 1].port = c.probes[i].port + 1
             /\ (Retried(c.probes[i].result) /\ i = Len(c.probes)) =>
                  (n = Len(srv[s].calls) /\ srv[s].pc = "probe"
                     /\ srv[s].port = c.probes[i].port + 1 /\ srv[s].host = c.host)
             /\ (c.probes[i].result # "ok" /\ ~Retried(c.probes[i].result)) =>
                  (i = Len(c.probes) /\ n = Len(srv[s].calls) /\ srv[s].pc = "rejected")
        /\ (srv[s].pc = "rejected" /\ n = Len(srv[s].calls)) =>
             (c.probes # <<>> /\ c.probes[Len(c.probes)].result = "EINVAL")

\* the loopback call moved past a port in use and was then rejected
C25_Witness ==
  \E s \in Servers :
    /\ srv[s].pc = "rejected"
    /\ Len(srv[s].calls) = 2
    /\ LET c == srv[s].calls[2]
       IN  /\ Len(c.probes) = 2
           /\ c.probes[1].result = "EADDRINUSE" /\ c.probes[1].host = LoopHost
           /\ c.probes[2].result = "EINVAL" /\ c.probes[2].host = LoopHost
           /\ c.probes[2].port = c.probes[1].port + 1

(***************************************************************************)
(* C26.  'host' events are emitted only by a server bound to every         *)
(* interface, one for each IPv4 address that is not a loopback address and *)
(* none for loopback and IPv6 addresses, each with root = protocol,        *)
(* address, ':', port, '/', and all of them before the server's 'start'.   *)
(***************************************************************************)
PublicV4 == {i \in 1..Len(iFaces) : iFaces[i].family = "IPv4" /\ ~iFaces[i].internal}

RootOf(s, i) == <<protocol(s), iFaces[i].address, ":", srv[s].port, "/">>

C26_HostEvents ==
  \A s \in Servers :
    /\ cfg.servers[s].local => ~Emitted(s, "host")
    /\ \A j \in EventsOf(s, "host") :
         /\ \E i \in PublicV4 : srv[s].events[j].root = RootOf(s, i)
         /\ \A k \in EventsOf(s, "start") : j < k
    /\ (Emitted(s, "start") /\ ~cfg.servers[s].local) =>
         \A i \in PublicV4 :
           Cardinality({j \in EventsOf(s, "host") : srv[s].events[j].root = RootOf(s, i)}) = 1

(***************************************************************************)
(* C27.  For every request exactly one stage of the pipeline writes the    *)
(* response: the stages run in the order auth, CORS, robots, logging,      *)
(* compression, static, listing, terminal fallback; no stage runs after    *)
(* the one that wrote the response; the terminal fallback answers what no  *)
(* earlier stage answered.                                                 *)
(***************************************************************************)
StageOrder ==
  <<{"auth"}, {"cors"}, {"robots"}, {"log"}, {"compression"}, {"static"}, {"listing"},
    {"notfound", "error"}>>

Rank(stage) == CHOOSE k \in 1..Len(StageOrder) : stage \in StageOrder[k]

IsStage(stage) == \E k \in 1..Len(StageOrder) : stage \in StageOrder[k]

C27_OneWriter ==
  Answered =>
    /\ res.ran # <<>>
    /\ \A i \in 1..Len(res.ran) : IsStage(res.ran[i])
    /\ \A i, j \in 1..Len(res.ran) : i < j => Rank(res.ran[i]) < Rank(res.ran[j])

(***************************************************************************)
(* C28.  Every request the server receives gets exactly one access log     *)
(* entry, with its method and original URL, also when the auth gate        *)
(* answers it 401 and when robots synthesis answers it; an auth failure    *)
(* writes no error log entry.                                              *)
(***************************************************************************)
LogEntries(sink) == {i \in 1..Len(res.log) : res.log[i].sink = sink}

C28_AccessLog ==
  Answered =>
    /\ Cardinality(LogEntries("log")) = 1
    /\ \A i \in LogEntries("log") :
         /\ res.log[i].method = req.method
         /\ res.log[i].url = req.url
         /\ res.log[i].query = req.query
    /\ res.status = 401 => LogEntries("error") = {}

(***************************************************************************)
(* C29.  Every response that serves a file, from the static stage (index   *)
(* and extension fallback included) or from a negotiated-compression hit,  *)
(* carries Cache-Control: no-cache, no-store, must-revalidate, Pragma:     *)
(* no-cache, Expires: 0 and every configured extra header, and carries     *)
(* Cross-Origin-Opener-Policy: same-origin and                             *)
(* Cross-Origin-Embedder-Policy: require-corp exactly when                 *)
(* sharedArrayBuffers is set.                                              *)
(***************************************************************************)
ServesFile == Answered /\ res.status = 200 /\ res.entity.kind = "file"

C29_FileHeaders ==
  ServesFile =>
    /\ AnsweredBy("static") \/ AnsweredBy("compression")
    /\ res.hdrs["Cache-Control"] = "no-cache, no-store, must-revalidate"
    /\ res.hdrs["Pragma"] = "no-cache"
    /\ res.hdrs["Expires"] = "0"
    /\ \A pr \in settings.headers : res.hdrs[pr[1]] = pr[2]
    /\ IF settings.sharedArrayBuffers
       THEN /\ res.hdrs["Cross-Origin-Opener-Policy"] = "same-origin"
            /\ res.hdrs["Cross-Origin-Embedder-Policy"] = "require-corp"
       ELSE /\ res.hdrs["Cross-Origin-Opener-Policy"] = ""
            /\ res.hdrs["Cross-Origin-Embedder-Policy"] = ""

\* a gzip hit of a server with sharedArrayBuffers set
C29_Witness ==
  /\ Hit /\ ServesFile /\ settings.sharedArrayBuffers
  /\ res.entity = FileBytes(<<FileTxtGz>>)
  /\ res.hdrs["Expires"] = "0"
  /\ res.hdrs["Cross-Origin-Embedder-Policy"] = "require-corp"

(***************************************************************************)
(* C30.  With unityHack on, a file sent from a path on disk ending in .gz  *)
(* or .br has the Content-Type of the path without that suffix and the     *)
(* Content-Encoding of the suffix (gzip for .gz, br for .br); with         *)
(* unityHack, gzip and brotli off, GET of a .gz or .br file returns its    *)
(* bytes with no Content-Encoding.                                         *)
(***************************************************************************)
SentName == res.entity.path[Len(res.entity.path)]

SentCompressed == ServesFile /\ (EndsWithExt(SentName, GzExt) \/ EndsWithExt(SentName, BrExt))

C30_UnityHack ==
  /\ (SentCompressed /\ settings.unityHack) =>
       /\ res.hdrs["Content-Type"] = mimeTypesLookup(StripExt(SentName))
       /\ res.hdrs["Content-Encoding"] = (IF EndsWithExt(SentName, GzExt) THEN "gzip" ELSE "br")
  /\ (Answered /\ GetAdmitted(req) /\ ~req.url.slash /\ Stat(req.url.segs) = "file"
        /\ (EndsWithExt(req.url.segs[Len(req.url.segs)], GzExt)
              \/ EndsWithExt(req.url.segs[Len(req.url.segs)], BrExt))
        /\ ~settings.unityHack /\ ~settings.gzip /\ ~settings.brotli) =>
       /\ res.status = 200
       /\ res.body = FileBytes(req.url.segs)
       /\ res.hdrs["Content-Encoding"] = ""

(***************************************************************************)
(* C31.  With CORS enabled the CORS stage only sets headers and hands the  *)
(* request on: for no method, OPTIONS included, does it write the response *)
(* itself.                                                                 *)
(***************************************************************************)
ReachesCors == \E i \in 1..Len(res.ran) : res.ran[i] = "cors"

C31_CorsPasses ==
  (Answered /\ settings.cors /\ ReachesCors) =>
    /\ res.hdrs["Access-Control-Allow-Origin"] = "*"
    /\ ~AnsweredBy("cors")
    /\ Len(res.ran) > StageAt("cors")

(***************************************************************************)
(* C32.  For a request path ending in '/', the only sidecars the           *)
(* compression stage considers are the index file name with the            *)
(* candidate's suffix, in that directory; with index mode off it considers *)
(* none for such a path and always hands the request on.                   *)
(***************************************************************************)
C32_SlashCandidates ==
  (Answered /\ ReachesCompressionStage /\ req.url.slash) =>
    IF settings.index
    THEN AnsweredBy("compression") =>
           \E ext \in {GzExt, BrExt} :
             res.entity = FileBytes(Append(req.url.segs, AddExt(IndexName, ext)))
    ELSE /\ ~AnsweredBy("compression")
         /\ res.ran[StageAt("compression") + 1] = "static"

(***************************************************************************)
(* C33.  A response carries Content-Encoding or Vary: Accept-Encoding only *)
(* if its body is the bytes of a compressed file (a negotiated sidecar or  *)
(* a unity-hack file); a 404 or 500 response never carries                 *)
(* Content-Encoding, also when sending fails after the compression stage   *)
(* has chosen a sidecar.                                                   *)
(***************************************************************************)
C33_EncodingHeaders ==
  Answered =>
    /\ (res.hdrs["Content-Encoding"] # "" \/ res.hdrs["Vary"] = "Accept-Encoding") =>
         SentCompressed
    /\ res.status \in {404, 500} => res.hdrs["Content-Encoding"] = ""

(***************************************************************************)
(* C34.  For every request URL, also one with '..' segments, the file      *)
(* whose existence the compression stage tests lies inside root, and the   *)
(* response to a request does not depend on whether a file outside root    *)
(* exists.                                                                 *)
(***************************************************************************)
StatusBody(response) == <<response.status, response.body>>

\* the response the server gives now to the request in flight is the one
\* the client holds
SameAgain == StatusBody(app(req)) = StatusBody(res)

C34_RootConfined ==
  Answered =>
    /\ (ReachesCompressionStage /\ req.method \in {"GET", "HEAD"}) =>
         \A i \in 1..Len(methods) :
           checkExtension(req, methods[i]).found => ~HasUp(checkExtension(req, methods[i]).full)
    /\ HasUp(req.url.segs) => SameAgain

(***************************************************************************)
(* C35.  When getFreePort resolves, its probe listener is closed already,  *)
(* and no probe listener of the call stays bound once the promise has      *)
(* settled: a probe listener is bound only between its bind and its close  *)
(* callback, and it is the one of the probe in progress.                   *)
(***************************************************************************)
ProbeSocks(s) == {k \in socks : k.owner = s /\ k.kind = "probe"}

C35_ProbeClosed ==
  \A s \in Servers :
    ProbeSocks(s) \subseteq
      (IF srv[s].pc = "release"
       THEN {Sock(s, "probe", srv[s].port, srv[s].host)}
       ELSE {})

\* the discovery of server 1 has resolved after scanning past a busy port:
\* both calls have bound a probe, and none is left
C35_Witness ==
  /\ srv[1].pc = "resolved"
  /\ Len(srv[1].calls) = 2
  /\ \A i \in 1..2 : \E j \in 1..Len(srv[1].calls[i].probes) :
                        srv[1].calls[i].probes[j].result = "ok"
  /\ srv[1].port > cfg.servers[1].port
  /\ ProbeSocks(1) = {}

OnlyOneConfigured == Truthy(settings.username) # Truthy(settings.password)

C38_HalfConfigured ==
  (Answered /\ OnlyOneConfigured) =>
    /\ res.status = 401
    /\ res.hdrs["WWW-Authenticate"] = "Basic realm=\"\""
    /\ res.ran = <<"auth">>

\* only the username is configured; a request with that username and an
\* empty password is refused
C38_Witness ==
  /\ Answered
  /\ settings.username = Str(UserName) /\ settings.password = Undefined
  /\ req.authorization = Basic(<<"u", ":">>)
  /\ res.status = 401

(***************************************************************************)
(* C37.  After the discovery the server listens on the discovered port     *)
(* and on no other.  When that port has been taken between the release of  *)
(* the probe and the server's listen, the bind error is emitted as 'error':*)
(* no other port is tried, with scan on as well, and 'start' is never      *)
(* emitted.                                                                *)
(***************************************************************************)
ListenersOf(s) == {k \in socks : k.owner = s /\ k.kind = "listener"}

C37_OnePort ==
  \A s \in Servers :
    /\ ListenersOf(s) # {} =>
         /\ Discovered(s)
         /\ ListenersOf(s) = {Sock(s, "listener", srv[s].port, hostname(s))}
    /\ Discovered(s) =>
         /\ Len(srv[s].calls) = 2
         /\ Resolves(srv[s].calls[2])
         /\ ProbedFree(srv[s].calls[2], srv[s].port)
    /\ Emitted(s, "error") =>
         /\ srv[s].pc = "failed"
         /\ ListenersOf(s) = {}
         /\ ~Emitted(s, "start")
    /\ Emitted(s, "start") =>
         srv[s].events[Len(srv[s].events) - (IF Emitted(s, "close") THEN 1 ELSE 0)].port
           = srv[s].port

\* server 1, with scan on, found its port free; server 2 took the port before
\* server 1 listened; server 1 has emitted the bind error and nothing else
C37_Witness ==
  /\ cfg.servers[1].scan
  /\ srv[1].pc = "failed"
  /\ srv[1].events = <<ErrorEvent("EADDRINUSE")>>
  /\ ProbedFree(srv[1].calls[2], srv[1].port)
  /\ Sock(2, "listener", srv[1].port, hostname(2)) \in socks
  /\ ListenersOf(1) = {}

(***************************************************************************)
(* C39.  Every constructed server eventually emits 'start' or 'error',     *)
(* provided the ports at and above the requested one hold a port free on   *)
(* both probe hosts, and never emits 'start' once it has emitted an        *)
(* 'error' of a failed startup.                                            *)
(***************************************************************************)
\* the scan has left the range of ports the model holds
OutOfRange(s) == srv[s].port > MaxPort

C39_Settles ==
  /\ \A s \in Servers :
       <>(Emitted(s, "start") \/ Emitted(s, "error") \/ OutOfRange(s))
  /\ [](\A s \in Servers : ~(Emitted(s, "start") /\ Emitted(s, "error")))

====
